---------------------------- MODULE Spec2Model ----------------------------
(***************************************************************************)
(* The quiz-taking handler take_quiz of classroom/views/students.py: one   *)
(* student, a catalogue of quizzes, the relational store (StudentAnswer    *)
(* and TakenQuiz rows) and the server-side session that carries the        *)
(* running score and the streak exponent of each quiz.                     *)
(*                                                                         *)
(* Spec     : requests are served one at a time; one action is one whole   *)
(*            request (GET or POST).                                       *)
(* SpecExpiry: as Spec, for one quiz, with a session that may be lost      *)
(*            between two requests.                                        *)
(* SpecConc : two requests of the same student are served concurrently,    *)
(*            one step per database statement, each POST inside its own    *)
(*            transaction (READ COMMITTED: a statement sees the committed  *)
(*            rows and the rows its own transaction wrote).                *)
(* SpecLive : as Spec, with a catalogue of well-formed questions and a     *)
(*            student who keeps answering (weak fairness).                 *)
(* SpecList : as Spec, with QuizListView's quiz list requested between     *)
(*            the requests of take_quiz.                                   *)
(*                                                                         *)
(* Scores are kept in hundredths (7500 is 75.0), so that round(x, 2) is an *)
(* integer computation.                                                    *)
(***************************************************************************)
EXTENDS Integers, Sequences, FiniteSets, Bags, TLC

\* Bound of the catalogue: the most questions a quiz has.
MaxQuestions == 3

\* The same bound where two requests are served concurrently.
MaxQuestionsConc == 2

VARIABLES
    questions,        \* quiz.questions.count() of every quiz
    correct_answers,  \* the Answer rows with is_correct = True
    quiz_answers,     \* student.quiz_answers: committed StudentAnswer rows (a bag of Answers)
    taken_quizzes,    \* committed TakenQuiz rows of the student (a bag of [quiz, score])
    session,          \* request.session as stored: key -> value
    response,         \* the last response sent
    workers           \* the requests in flight (SpecConc)

vars == <<questions, correct_answers, quiz_answers, taken_quizzes, session, response, workers>>

store == <<quiz_answers, taken_quizzes>>

-----------------------------------------------------------------------------
\* The catalogue: Quiz, Question and Answer rows.

\* Two quizzes: the one a request is for, and another one.
Quizzes == {1, 2}

\* A pk of the URL: a quiz, or 0, the pk of no quiz.
Pks == {0} \cup Quizzes

\* Python's None, and a POST without the answer field.
None == <<>>

\* The two answers of a question: Answer rows are <<quiz, question, choice>>.
Choices == {1, 2}

AllAnswers == Quizzes \X (1..MaxQuestions) \X Choices

QuizOf(a) == a[1]

QuestionOf(a) == <<a[1], a[2]>>

\* quiz.questions: the questions of a quiz, in their order.
QuestionsOf(quiz) == {<<quiz, i>> : i \in 1..questions[quiz]}

\* question.answers: the Answer rows of a question.
AnswersOf(question) ==
    IF question = None THEN {} ELSE {<<question[1], question[2], c>> : c \in Choices}

\* What a POST for quiz pk carries: the id of an answer to one of the quiz's questions
\* (of the current question or of another one), or no answer field.
PostData(pk) == ({pk} \X (1..MaxQuestions) \X Choices) \cup {None}


-----------------------------------------------------------------------------
\* Queries of the handler. qa is the bag of StudentAnswer rows the request sees,
\* tq the bag of TakenQuiz rows it sees.

\* A handler without the "already taken" check.
AlreadyTakenNotChecked(tq, pk) == FALSE

\* student.quizzes.filter(pk=pk).exists()
AlreadyTaken(tq, pk) == \E t \in DOMAIN tq : t.quiz = pk

\* student.get_unanswered_questions(quiz): the questions of the quiz none of the
\* student's answers refers to.
GetUnansweredQuestions(qa, quiz) ==
    {q \in QuestionsOf(quiz) : \A a \in AnswersOf(q) : CopiesIn(a, qa) = 0}

\* The last question instead of the first (the order reversed).
Last(qs) ==
    IF qs = {} THEN None
    ELSE CHOOSE q \in qs : \A r \in qs : q[2] >= r[2]

\* unanswered_questions.first(): the first question in the quiz's order, or None.
First(qs) ==
    IF qs = {} THEN None
    ELSE CHOOSE q \in qs : \A r \in qs : q[2] <= r[2]

\* TakeQuizForm(question=question, data=request.POST).is_valid(): the posted answer
\* is one of the question's answers.
FormIsValid(question, data) == data \in AnswersOf(question)

\* Answer.objects.filter(question=question.id, is_correct=True), which .get() expects
\* to hold exactly one row.
CorrectAnswersOf(question) == AnswersOf(question) \cap correct_answers

\* The exception Answer.objects.get raises, or "" when it returns a row.
GetRaises(rows) ==
    IF rows = {} THEN "DoesNotExist"
    ELSE IF Cardinality(rows) > 1 THEN "MultipleObjectsReturned"
    ELSE ""

\* student.quiz_answers.filter(answer__question__quiz=quiz, answer__is_correct=True).count()
NumberCorrect(qa, quiz) ==
    BagCardinality([a \in {b \in DOMAIN qa : QuizOf(b) = quiz /\ b \in correct_answers}
                      |-> qa[a]])

\* round(num / den, 0) for den > 0, num >= 0, ties to the even neighbour as Python's
\* round does (no tie arises for fewer than 32 questions).
RoundDiv(num, den) ==
    LET lo == num \div den
        twice == 2 * (num % den)
    IN  IF twice < den THEN lo
        ELSE IF twice > den THEN lo + 1
        ELSE IF lo % 2 = 0 THEN lo ELSE lo + 1

\* The percentage cut after two decimals instead of rounded.
FinalScoreTruncated(correct, total) == (correct * 10000) \div total

\* score = round((correct_answers / total_questions) * 100.0, 2), in hundredths.
FinalScore(correct, total) == RoundDiv(correct * 10000, total)

\* The messages with the pass mark itself on the failing side.
CompletionMessagePassAbove(score) == IF score <= 5000 THEN "warning" ELSE "success"

\* if score < 50.0: messages.warning(...) else: messages.success(...)
CompletionMessage(score) == IF score < 5000 THEN "warning" ELSE "success"

-----------------------------------------------------------------------------
\* The session: a dictionary from key to integer.

\* One key for the running score of every quiz.
temp_score_shared_name(quiz) == <<"temp_score_", 0>>

temp_score_name(quiz) == <<"temp_score_", quiz>>

next_exponent_name(quiz) == <<"next_exponent_", quiz>>

\* request.session.get(key, default)
SessionGet(s, key, default) == IF key \in DOMAIN s THEN s[key] ELSE default

\* request.session[key] = value
SessionSet(s, key, value) == (key :> value) @@ s

\* A correct branch that forgets to raise the exponent.
ScoreCorrectSameExponent(temp_score, next_exponent) ==
    [temp_score |-> temp_score + 2 ^ next_exponent, next_exponent |-> next_exponent]

\* The correct branch: temp_score + 2**next_exponent, next_exponent + 1.
ScoreCorrect(temp_score, next_exponent) ==
    [temp_score |-> temp_score + 2 ^ next_exponent, next_exponent |-> next_exponent + 1]

\* A wrong answer that leaves the exponent as it is.
ScoreWrongKeepsExponent(temp_score, next_exponent) ==
    [temp_score |-> temp_score - 2, next_exponent |-> next_exponent]

\* An incorrect branch whose deduction doubles with every wrong answer in a row.
ScoreWrongDoubling(temp_score, next_exponent) ==
    [temp_score |-> temp_score - 2 ^ next_exponent, next_exponent |-> next_exponent + 1]

\* The incorrect branch: temp_score - 2, exponent back to 1.
ScoreWrong(temp_score, next_exponent) ==
    [temp_score |-> temp_score - 2, next_exponent |-> 1]

\* Lines 111-149: read the two session values with their defaults, store temp_score
\* back (twice, as the code does), then store the branch's values.
UpdateSession(s, quiz, is_right) ==
    LET temp_score == SessionGet(s, temp_score_name(quiz), 0)
        s1 == SessionSet(s, temp_score_name(quiz), temp_score)
        next_exponent == SessionGet(s1, next_exponent_name(quiz), 1)
        s2 == SessionSet(s1, temp_score_name(quiz), temp_score)
        new == IF is_right THEN ScoreCorrect(temp_score, next_exponent)
               ELSE ScoreWrong(temp_score, next_exponent)
    IN  SessionSet(SessionSet(s2, temp_score_name(quiz), new.temp_score),
                   next_exponent_name(quiz), new.next_exponent)

-----------------------------------------------------------------------------
\* Responses.

NoResponse == [status |-> "none", pk |-> 0, question |-> None, detail |-> ""]

\* get_object_or_404 raised Http404.
NotFound(pk) == [status |-> "not_found", pk |-> pk, question |-> None, detail |-> ""]

\* render(request, 'students/taken_quiz.html')
TakenQuizPage(pk) == [status |-> "taken_quiz", pk |-> pk, question |-> None, detail |-> ""]

\* render(request, 'classroom/students/take_quiz_form.html', {... 'question': question ...})
TakeQuizFormPage(pk, question) ==
    [status |-> "take_quiz_form", pk |-> pk, question |-> question, detail |-> ""]

\* redirect('students:take_quiz', pk)
RedirectTakeQuiz(pk) ==
    [status |-> "redirect_take_quiz", pk |-> pk, question |-> None, detail |-> ""]

\* redirect('students:quiz_list'), after the completion message
RedirectQuizList(pk, score) ==
    [status |-> "redirect_quiz_list", pk |-> pk, question |-> None,
     detail |-> CompletionMessage(score)]

\* An uncaught exception: the 500 response.
ServerError(pk, exception) ==
    [status |-> "server_error", pk |-> pk, question |-> None, detail |-> exception]

\* No transaction: every write is kept, also when the block raised.
NoTransaction(before, after, raised) == after

\* with transaction.atomic(): the block's writes are committed unless it raised.
TransactionAtomic(before, after, raised) == IF raised THEN before ELSE after

\* A session that is emptied by the response that completes a quiz.
SessionClearedOnCompletion(before, after, resp) ==
    IF resp.status = "server_error" THEN before
    ELSE IF resp.status = "redirect_quiz_list" THEN <<>> ELSE after

\* The session is saved with the response, except with a 500 response.
SessionSave(before, after, resp) == IF resp.status = "server_error" THEN before ELSE after

-----------------------------------------------------------------------------
\* take_quiz, a whole request served alone. The result holds the store and the session
\* as the request leaves them and the response it sends.

Result(qa, tq, s, resp) ==
    [quiz_answers |-> qa, taken_quizzes |-> tq, session |-> s, response |-> resp]

\* The check passing while one question is still unanswered.
MoreThanOneUnanswered(qa, pk) == Cardinality(GetUnansweredQuestions(qa, pk)) > 1

\* Line 156: student.get_unanswered_questions(quiz).exists()
UnansweredExist(qa, pk) == GetUnansweredQuestions(qa, pk) # {}

\* A POST whose form is not validated.
IsPost(method, question, data) == method = "POST"

\* Lines 92-94: the request is a POST and its form is valid.
IsValidPost(method, question, data) == method = "POST" /\ FormIsValid(question, data)

\* Lines 95-168: the transaction of a valid POST. db_error: TakenQuiz.objects.create
\* raises (a storage failure).
ValidSubmission(pk, question, data, db_error) ==
    LET total_questions == questions[pk]
        \* student_answer.save()
        qa1 == quiz_answers (+) SetToBag({data})
        exception == GetRaises(CorrectAnswersOf(question))
        s1 == UpdateSession(session, pk, data \in CorrectAnswersOf(question))
        score == FinalScore(NumberCorrect(qa1, pk), total_questions)
        tq1 == taken_quizzes (+) SetToBag({[quiz |-> pk, score |-> score]})
    IN  IF exception # ""
        THEN Result(TransactionAtomic(quiz_answers, qa1, TRUE), taken_quizzes,
                    session, ServerError(pk, exception))
        ELSE IF UnansweredExist(qa1, pk)
        THEN Result(TransactionAtomic(quiz_answers, qa1, FALSE), taken_quizzes,
                    SessionSave(session, s1, RedirectTakeQuiz(pk)), RedirectTakeQuiz(pk))
        ELSE IF db_error
        THEN Result(TransactionAtomic(quiz_answers, qa1, TRUE),
                    TransactionAtomic(taken_quizzes, taken_quizzes, TRUE),
                    SessionSave(session, s1, ServerError(pk, "DatabaseError")),
                    ServerError(pk, "DatabaseError"))
        ELSE Result(TransactionAtomic(quiz_answers, qa1, FALSE),
                    TransactionAtomic(taken_quizzes, tq1, FALSE),
                    SessionSave(session, s1, RedirectQuizList(pk, score)),
                    RedirectQuizList(pk, score))

\* Lines 80-177. method is "GET" or "POST"; data is what a POST carries.
TakeQuizResult(method, pk, data, db_error) ==
    LET unchanged(resp) == Result(quiz_answers, taken_quizzes, session, resp)
    IN  IF pk \notin Quizzes THEN unchanged(NotFound(pk))
        ELSE IF AlreadyTaken(taken_quizzes, pk) THEN unchanged(TakenQuizPage(pk))
        ELSE IF questions[pk] = 0 THEN unchanged(ServerError(pk, "ZeroDivisionError"))
        ELSE LET question == First(GetUnansweredQuestions(quiz_answers, pk))
             IN  IF question = None
                 \* TakeQuizForm(question=None) reads question.answers
                 THEN unchanged(ServerError(pk, "AttributeError"))
                 ELSE IF IsValidPost(method, question, data)
                 THEN ValidSubmission(pk, question, data, db_error)
                 ELSE unchanged(TakeQuizFormPage(pk, question))

Apply(result) ==
    LET r == result
    IN
    /\ quiz_answers' = r.quiz_answers
    /\ taken_quizzes' = r.taken_quizzes
    /\ session' = r.session
    /\ response' = r.response
    /\ UNCHANGED <<questions, correct_answers, workers>>

\* GET /students/quiz/<pk>/
TakeQuizGet(pk) == Apply(TakeQuizResult("GET", pk, None, FALSE))

\* POST /students/quiz/<pk>/ with the form's data
TakeQuizPost(pk, data) == Apply(TakeQuizResult("POST", pk, data, FALSE))

\* The same, with TakenQuiz.objects.create raising: only a request that gets to line 163
\* can meet that failure.
TakeQuizPostCreateFails(pk, data) ==
    /\ TakeQuizResult("POST", pk, data, FALSE).response.status = "redirect_quiz_list"
    /\ Apply(TakeQuizResult("POST", pk, data, TRUE))

-----------------------------------------------------------------------------
\* The initial state: a catalogue, nothing answered, an empty session.

\* The is_correct flags of a question: its first answer alone (a well-formed question),
\* none, or both.
Flagged(question, kind) ==
    CASE kind = "one" -> {a \in AnswersOf(question) : a[3] = 1}
      [] kind = "none" -> {}
      [] kind = "both" -> AnswersOf(question)

Catalogues ==
    {c \in [Quizzes -> 0..MaxQuestions] : TRUE}

InitData ==
    /\ questions \in Catalogues
    /\ \E bad \in {None} \cup (Quizzes \X (1..MaxQuestions)), kind \in {"none", "both"} :
          /\ bad # None => bad[2] <= questions[bad[1]]
          /\ bad = None => kind = "none"
          /\ correct_answers =
                UNION {Flagged(q, IF q = bad THEN kind ELSE "one") :
                         q \in UNION {QuestionsOf(quiz) : quiz \in Quizzes}}
    /\ quiz_answers = EmptyBag
    /\ taken_quizzes = EmptyBag
    /\ session = <<>>
    /\ response = NoResponse

\* Requests served one at a time: none is ever in flight.
Init == InitData /\ workers = <<>>

Next ==
    \/ \E pk \in Pks : TakeQuizGet(pk)
    \/ \E pk \in Pks : \E data \in PostData(pk) : TakeQuizPost(pk, data)
    \/ \E pk \in Pks : \E data \in PostData(pk) : TakeQuizPostCreateFails(pk, data)

Spec == Init /\ [][Next]_vars

-----------------------------------------------------------------------------
\* The session is gone (it expired, or the student logged in anew): the next
\* submission reads the defaults 0 and 1.
SessionExpires ==
    /\ session # <<>>
    /\ session' = <<>>
    /\ UNCHANGED <<questions, correct_answers, quiz_answers, taken_quizzes, response, workers>>

\* Only quiz 1 has questions.
InitOneQuiz == Init /\ questions[2] = 0

NextExpiry == Next \/ SessionExpires

\* Requests one at a time, with a session that may be lost between them.
SpecExpiry == InitOneQuiz /\ [][NextExpiry]_vars

-----------------------------------------------------------------------------
\* A student who keeps answering the quizzes, one request at a time.

\* A POST for quiz pk that carries one of the answers of its current question.
KeepsAnswering(pk) ==
    \E data \in AnswersOf(First(GetUnansweredQuestions(quiz_answers, pk))) :
        TakeQuizPost(pk, data)

\* The catalogue is as the data model wants it: the lookup of line 107 finds one
\* correct answer for every question. The second quiz is a short one.
InitLive ==
    /\ Init
    /\ questions[2] <= 1
    /\ \A quiz \in Quizzes : \A q \in QuestionsOf(quiz) : GetRaises(CorrectAnswersOf(q)) = ""

\* The student's submissions are served again and again: a submission that can be
\* served is not put off for ever.
Fairness == \A pk \in Quizzes : WF_vars(KeepsAnswering(pk))

SpecLive == InitLive /\ [][Next]_vars /\ Fairness

-----------------------------------------------------------------------------
\* The student's quiz list (QuizListView), between the requests of take_quiz.

\* Every quiz has a subject of its own; the student's interests are a set of subjects.
SubjectOf(quiz) == quiz

Subjects == {SubjectOf(quiz) : quiz \in Quizzes}

\* The queryset without .exclude(pk__in=taken_quizzes).
GetQuerysetKeepsTaken(student_interests, tq) ==
    {quiz \in Quizzes : SubjectOf(quiz) \in student_interests /\ questions[quiz] > 0}

\* Lines 53-61: the quizzes of the student's subjects, without the taken ones and
\* without those that have no question.
GetQueryset(student_interests, tq) ==
    LET taken == {t.quiz : t \in DOMAIN tq}
        of_interest == {quiz \in Quizzes : SubjectOf(quiz) \in student_interests}
        not_taken == of_interest \ taken
    IN  {quiz \in not_taken : Cardinality(QuestionsOf(quiz)) > 0}

\* The page of the quiz list.
QuizListPage(queryset) ==
    [status |-> "quiz_list", pk |-> 0, question |-> None, detail |-> queryset]

\* GET /students/ by a student with the given interests.
QuizListGet(student_interests) ==
    /\ response' = QuizListPage(GetQueryset(student_interests, taken_quizzes))
    /\ UNCHANGED <<questions, correct_answers, quiz_answers, taken_quizzes, session, workers>>

NextList == Next \/ \E student_interests \in SUBSET Subjects : QuizListGet(student_interests)

\* The student takes quizzes and looks at the list, one request at a time.
SpecList == InitLive /\ [][NextList]_vars

-----------------------------------------------------------------------------
\* Two requests of the student in flight at once (a double submit, two tabs). A request
\* is served in steps, one for each place where it meets the shared store; a statement
\* sees the committed rows and the rows of its own open transaction.

Workers == {1, 2}

IdleWorker ==
    [pc |-> "idle", method |-> "", pk |-> 0, data |-> None, question |-> None,
     tx |-> EmptyBag, sess |-> <<>>]

\* The worker sends its response and is free again; the session it holds is saved.
Respond(w, resp) ==
    /\ response' = resp
    /\ session' = SessionSave(session, workers[w].sess, resp)
    /\ workers' = [workers EXCEPT ![w] = IdleWorker]

\* Lines 80-84: the quiz is looked up and the "already taken" check is made. The
\* request holds the session as the login check loaded it.
StartRequest(w, method, pk, data) ==
    /\ workers[w].pc = "idle"
    /\ IF pk \notin Quizzes
       THEN response' = NotFound(pk) /\ UNCHANGED workers
       ELSE IF AlreadyTaken(taken_quizzes, pk)
       THEN response' = TakenQuizPage(pk) /\ UNCHANGED workers
       ELSE /\ workers' = [workers EXCEPT ![w] =
                             [IdleWorker EXCEPT !.pc = "read_questions", !.method = method,
                                                !.pk = pk, !.data = data, !.sess = session]]
            /\ UNCHANGED response
    /\ UNCHANGED <<questions, correct_answers, quiz_answers, taken_quizzes, session>>

\* Lines 86-94 and 169-177: the current question is read and the form is validated.
ReadQuestions(w) ==
    LET me == workers[w]
        question == First(GetUnansweredQuestions(quiz_answers, me.pk))
    IN  /\ me.pc = "read_questions"
        /\ IF questions[me.pk] = 0
           THEN Respond(w, ServerError(me.pk, "ZeroDivisionError"))
           ELSE IF question = None
           THEN Respond(w, ServerError(me.pk, "AttributeError"))
           ELSE IF IsValidPost(me.method, question, me.data)
           THEN /\ workers' = [workers EXCEPT ![w].pc = "save_answer", ![w].question = question]
                /\ UNCHANGED <<response, session>>
           ELSE Respond(w, TakeQuizFormPage(me.pk, question))
        /\ UNCHANGED <<questions, correct_answers, quiz_answers, taken_quizzes>>

\* Lines 95-149: the transaction begins, the StudentAnswer is inserted, the correct
\* answer is looked up and the request's session is updated. An exception rolls the
\* transaction back.
SaveAnswer(w) ==
    LET me == workers[w]
        exception == GetRaises(CorrectAnswersOf(me.question))
    IN  /\ me.pc = "save_answer"
        /\ IF exception # ""
           THEN Respond(w, ServerError(me.pk, exception))
           ELSE /\ workers' = [workers EXCEPT
                                 ![w].pc = "check_unanswered",
                                 ![w].tx = SetToBag({me.data}),
                                 ![w].sess = UpdateSession(me.sess, me.pk,
                                                           me.data \in CorrectAnswersOf(me.question))]
                /\ UNCHANGED <<response, session>>
        /\ UNCHANGED <<questions, correct_answers, quiz_answers, taken_quizzes>>

\* Lines 152-157: with unanswered questions left, the transaction commits and the
\* student is sent to the next question.
CheckUnanswered(w) ==
    LET me == workers[w]
    IN  /\ me.pc = "check_unanswered"
        /\ IF UnansweredExist(quiz_answers (+) me.tx, me.pk)
           THEN /\ quiz_answers' = TransactionAtomic(quiz_answers, quiz_answers (+) me.tx, FALSE)
                /\ Respond(w, RedirectTakeQuiz(me.pk))
           ELSE /\ workers' = [workers EXCEPT ![w].pc = "create_taken_quiz"]
                /\ UNCHANGED <<quiz_answers, response, session>>
        /\ UNCHANGED <<questions, correct_answers, taken_quizzes>>

\* Lines 160-168: the correct answers are counted, the TakenQuiz is created and the
\* transaction commits; or the creation raises (db_error) and it is rolled back.
CreateTakenQuiz(w, db_error) ==
    LET me == workers[w]
        score == FinalScore(NumberCorrect(quiz_answers (+) me.tx, me.pk), questions[me.pk])
        created == taken_quizzes (+) SetToBag({[quiz |-> me.pk, score |-> score]})
    IN  /\ me.pc = "create_taken_quiz"
        /\ quiz_answers' = TransactionAtomic(quiz_answers, quiz_answers (+) me.tx, db_error)
        /\ taken_quizzes' = TransactionAtomic(taken_quizzes, created, db_error)
        /\ IF db_error
           THEN Respond(w, ServerError(me.pk, "DatabaseError"))
           ELSE Respond(w, RedirectQuizList(me.pk, score))
        /\ UNCHANGED <<questions, correct_answers>>

\* The concurrent requests are for a quiz of at most MaxQuestionsConc questions; the
\* other quiz has none.
InitConc ==
    /\ InitData
    /\ questions[1] <= MaxQuestionsConc
    /\ questions[2] = 0
    /\ workers = [w \in Workers |-> IdleWorker]

NextConc ==
    \/ \E w \in Workers, pk \in Pks : StartRequest(w, "GET", pk, None)
    \/ \E w \in Workers, pk \in Pks : \E data \in PostData(pk) : StartRequest(w, "POST", pk, data)
    \/ \E w \in Workers : ReadQuestions(w)
    \/ \E w \in Workers : SaveAnswer(w)
    \/ \E w \in Workers : CheckUnanswered(w)
    \/ \E w \in Workers, db_error \in BOOLEAN : CreateTakenQuiz(w, db_error)

SpecConc == InitConc /\ [][NextConc]_vars

-----------------------------------------------------------------------------
\* What the properties speak of, read off the state alone.

\* The number of StudentAnswer rows that refer to answer a.
Rows(a) == CopiesIn(a, quiz_answers)

\* The number of the student's StudentAnswer rows for a question, for a quiz, and
\* those of a quiz that refer to a correct Answer.
RowsOfQuestion(q) == Rows(<<q[1], q[2], 1>>) + Rows(<<q[1], q[2], 2>>)

RowsOfQuiz(quiz) ==
    BagCardinality([a \in {b \in DOMAIN quiz_answers : QuizOf(b) = quiz} |-> quiz_answers[a]])

CorrectRowsOfQuiz(quiz) ==
    BagCardinality([a \in {b \in DOMAIN quiz_answers : QuizOf(b) = quiz /\ b \in correct_answers}
                      |-> quiz_answers[a]])

\* The number of TakenQuiz rows of a quiz.
TakenRows(quiz) ==
    BagCardinality([t \in {u \in DOMAIN taken_quizzes : u.quiz = quiz} |-> taken_quizzes[t]])

\* The current question of a quiz: its first question without a StudentAnswer.
Open(quiz) == {i \in 1..questions[quiz] : RowsOfQuestion(<<quiz, i>>) = 0}

CurrentQuestion(quiz) ==
    IF Open(quiz) = {} THEN None
    ELSE <<quiz, CHOOSE i \in Open(quiz) : \A j \in Open(quiz) : i <= j>>

\* A question as the data model wants it: exactly one of its answers is correct.
WellFormed(q) == Cardinality(AnswersOf(q) \cap correct_answers) = 1

\* The stored session values of a quiz.
HasScore(quiz) ==
    /\ temp_score_name(quiz) \in DOMAIN session
    /\ next_exponent_name(quiz) \in DOMAIN session

TempScore(quiz) == session[temp_score_name(quiz)]

NextExponent(quiz) == session[next_exponent_name(quiz)]

\* The stored answer to question i of a quiz is not a correct one.
AnsweredWrong(quiz, i) ==
    \E c \in Choices : Rows(<<quiz, i, c>>) > 0 /\ <<quiz, i, c>> \notin correct_answers

\* The number of correct answers given to a quiz since its last wrong one (or since
\* its start): the answers come in the order of the questions.
Streak(quiz) ==
    LET wrong == {i \in 1..questions[quiz] : AnsweredWrong(quiz, i)}
        last_wrong == IF wrong = {} THEN 0 ELSE CHOOSE i \in wrong : \A j \in wrong : i >= j
    IN  RowsOfQuiz(quiz) - last_wrong

\* The marks the stored answer to question i brought: 2 off for a wrong one, 2^e for a
\* right one, e being 1 + the number of right answers directly before it.
Gain(quiz, i) ==
    IF AnsweredWrong(quiz, i) THEN -2
    ELSE LET wrong == {j \in 1..(i - 1) : AnsweredWrong(quiz, j)}
             last_wrong == IF wrong = {} THEN 0 ELSE CHOOSE j \in wrong : \A k \in wrong : j >= k
         IN  2 ^ (i - last_wrong)

\* The running score the stored answers to the first k questions give, from 0.
ScoreAfter(quiz, k) ==
    LET after[i \in 0..k] == IF i = 0 THEN 0 ELSE after[i - 1] + Gain(quiz, i)
    IN  after[k]

\* The number of wrong answers given to a quiz since its last right one (or since its
\* start).
WrongRun(quiz) ==
    LET k == RowsOfQuiz(quiz)
        right == {i \in 1..k : ~AnsweredWrong(quiz, i)}
        last_right == IF right = {} THEN 0 ELSE CHOOSE i \in right : \A j \in right : i >= j
    IN  k - last_right

\* A session key is neither added, removed nor given another value by the step.
KeyKept(key) ==
    /\ key \in DOMAIN session' <=> key \in DOMAIN session
    /\ key \in DOMAIN session => session'[key] = session[key]

\* The step leaves what the session holds for a quiz as it is.
ScoreKept(quiz) == KeyKept(temp_score_name(quiz)) /\ KeyKept(next_exponent_name(quiz))

\* A valid submission for quiz pk can be served: the quiz is not taken yet and its
\* current question is well-formed.
CanSubmit(pk) ==
    /\ TakenRows(pk) = 0
    /\ CurrentQuestion(pk) # None
    /\ WellFormed(CurrentQuestion(pk))

\* The answers a valid submission for quiz pk may carry: those of the current question.
ValidData(pk) == AnswersOf(CurrentQuestion(pk))

\* "Every step that is a Step satisfies Effect". The effect is written first because
\* it is the cheaper of the two to evaluate on a transition.
StepHas(Effect, Step) == Effect \/ ~Step

-----------------------------------------------------------------------------
\* C1: from an empty session, once n >= 1 valid submissions for a quiz have been
\* served one at a time and all of them were correct, the session's running score of
\* that quiz is 2^1 + ... + 2^n = 2^(n+1) - 2.
C1_StreakScore ==
    \A quiz \in Quizzes :
        LET n == RowsOfQuiz(quiz)
        IN  (n >= 1 /\ CorrectRowsOfQuiz(quiz) = n)
                => HasScore(quiz) /\ TempScore(quiz) = 2 ^ (n + 1) - 2

\* C1's case: a quiz of MaxQuestions questions, all of them answered correctly.
C1_Witness ==
    \E quiz \in Quizzes :
        /\ RowsOfQuiz(quiz) = MaxQuestions
        /\ CorrectRowsOfQuiz(quiz) = MaxQuestions
        /\ TempScore(quiz) = 2 ^ (MaxQuestions + 1) - 2

C3_FinalScore ==
    \A t \in DOMAIN taken_quizzes :
        LET total == questions[t.quiz]
            diff == t.score * total - 10000 * CorrectRowsOfQuiz(t.quiz)
        IN  /\ total > 0
            /\ 2 * diff <= total
            /\ 2 * (-diff) <= total

\* C3's case: a completed quiz of three questions, two of them right (66.67), while
\* the session holds another running score than the one these answers give from an
\* empty session (the session was lost on the way).
C3_Witness ==
    \E t \in DOMAIN taken_quizzes :
        /\ questions[t.quiz] = 3
        /\ Rows(<<t.quiz, 1, 1>>) = 1 /\ Rows(<<t.quiz, 2, 1>>) = 1 /\ Rows(<<t.quiz, 3, 2>>) = 1
        /\ CorrectRowsOfQuiz(t.quiz) = 2
        /\ t.score = 6667
        /\ HasScore(t.quiz) /\ TempScore(t.quiz) # 4

\* C4: once the student has a TakenQuiz for a quiz, every request for that quiz, GET
\* or POST with any data, gets the "already taken" page and changes neither the store
\* nor the session.
C4_TakenIsTerminal ==
    [][\A pk \in Quizzes :
          (response'.pk = pk /\ TakenRows(pk) > 0) =>
            StepHas(/\ response' = TakenQuizPage(pk)
                    /\ UNCHANGED <<quiz_answers, taken_quizzes, session>>,
                    \/ TakeQuizGet(pk)
                    \/ \E data \in PostData(pk) :
                          TakeQuizPost(pk, data) \/ TakeQuizPostCreateFails(pk, data))]_vars

\* C4's case: a request for a taken quiz has been refused.
C4_Witness ==
    /\ response.status = "taken_quiz"
    /\ TakenRows(response.pk) = 1
    /\ HasScore(response.pk)

\* C5: in every reachable state, also with two requests of the student served
\* concurrently, a (student, quiz) pair has at most one TakenQuiz.
C5_AtMostOneTakenQuiz == \A quiz \in Quizzes : TakenRows(quiz) <= 1

\* C6: in every reachable state, also with two requests of the student served
\* concurrently, a (student, question) pair has at most one StudentAnswer.
C6_AtMostOneStudentAnswer ==
    \A quiz \in Quizzes : \A i \in 1..questions[quiz] : RowsOfQuestion(<<quiz, i>>) <= 1

\* C7: a POST whose answer is not one of the current question's answers writes no
\* StudentAnswer and no TakenQuiz, leaves the session as it is and presents the same
\* question again.
C7_InvalidSubmission ==
    [][\A pk \in Quizzes :
          (response'.pk = pk /\ TakenRows(pk) = 0 /\ CurrentQuestion(pk) # None) =>
            StepHas(/\ UNCHANGED <<quiz_answers, taken_quizzes, session>>
                    /\ response' = TakeQuizFormPage(pk, CurrentQuestion(pk))
                    /\ CurrentQuestion(pk)' = CurrentQuestion(pk),
                    \E data \in PostData(pk) \ ValidData(pk) : TakeQuizPost(pk, data))]_vars

\* C7's case: after a first answer, the form of the second question is shown (again).
C7_Witness ==
    /\ response.status = "take_quiz_form"
    /\ response.question # None
    /\ response.question[2] = 2
    /\ RowsOfQuiz(response.pk) = 1

\* C8: a request for a quiz without questions is answered with an "invalid quiz"
\* outcome, never by a division by zero.
C8_NoDivisionByZero ==
    \A pk \in Quizzes :
        (questions[pk] = 0 /\ response.pk = pk /\ response.status # "none")
            => response.status = "invalid_quiz" /\ response.detail # "ZeroDivisionError"

\* C9: a submission whose transaction fails after the StudentAnswer was saved (no or
\* several correct answers found, or the TakenQuiz not created) leaves the store as it
\* was: neither its StudentAnswer nor a TakenQuiz is kept.
C9_FailureRollsBack ==
    [][\A pk \in Quizzes :
          (response'.pk = pk /\ TakenRows(pk) = 0 /\ CurrentQuestion(pk) # None) =>
            \A data \in ValidData(pk) :
              StepHas(/\ response'.status = "server_error"
                      /\ UNCHANGED <<quiz_answers, taken_quizzes>>,
                      \/ TakeQuizPostCreateFails(pk, data)
                      \/ ~WellFormed(CurrentQuestion(pk)) /\ TakeQuizPost(pk, data))]_vars

\* C9's case: the creation of the TakenQuiz failed on the last answer of a quiz.
C9_Witness ==
    /\ response.status = "server_error"
    /\ response.detail = "DatabaseError"
    /\ response.pk \in Quizzes
    /\ RowsOfQuiz(response.pk) = questions[response.pk] - 1
    /\ TakenRows(response.pk) = 0

\* C10: served one at a time, a valid submission writes exactly one StudentAnswer,
\* for the current question, and changes the session; it creates one TakenQuiz if no
\* question of the quiz is left unanswered after it, and none otherwise.
C10_OneAnswerPerSubmission ==
    [][\A pk \in Quizzes :
          (response'.pk = pk /\ CanSubmit(pk)) =>
            \A data \in ValidData(pk) :
              StepHas(/\ quiz_answers' = quiz_answers (+) SetToBag({data})
                      /\ session' # session
                      /\ \A other \in Quizzes \ {pk} : TakenRows(other)' = TakenRows(other)
                      /\ IF Open(pk)' = {}
                         THEN TakenRows(pk)' = 1
                         ELSE TakenRows(pk)' = 0,
                      TakeQuizPost(pk, data))]_vars

\* C10's case: a quiz of MaxQuestions questions was completed, one answer a question.
C10_Witness ==
    \E quiz \in Quizzes :
        /\ questions[quiz] = MaxQuestions
        /\ RowsOfQuiz(quiz) = MaxQuestions
        /\ \A i \in 1..MaxQuestions : RowsOfQuestion(<<quiz, i>>) = 1
        /\ TakenRows(quiz) = 1
        /\ response = RedirectQuizList(quiz, FinalScore(CorrectRowsOfQuiz(quiz), MaxQuestions))

\* C11: in every reachable state, also with two requests of the student served
\* concurrently, the score of every TakenQuiz lies between 0 and 100.
C11_ScoreInRange ==
    \A t \in DOMAIN taken_quizzes : t.score >= 0 /\ t.score <= 10000

\* C12: the submission that completes a quiz answers with the success message if the
\* TakenQuiz it stored has a score of 50.0 or more, and with the warning otherwise; a
\* score of exactly 50.0 gets the success message.
C12_PassMark ==
    (response.status = "redirect_quiz_list") =>
        /\ TakenRows(response.pk) = 1
        /\ \A t \in DOMAIN taken_quizzes :
              t.quiz = response.pk =>
                  /\ response.detail \in {"success", "warning"}
                  /\ response.detail = "success" <=> t.score >= 5000
                  /\ response.detail = "warning" <=> t.score < 5000

\* C12's case: one answer of two is right, the score is exactly 50.0 and the message
\* is the success one.
C12_Witness ==
    /\ response.status = "redirect_quiz_list"
    /\ questions[response.pk] = 2
    /\ CorrectRowsOfQuiz(response.pk) = 1
    /\ [quiz |-> response.pk, score |-> 5000] \in DOMAIN taken_quizzes
    /\ response.detail = "success"

\* C13: for a quiz of n >= 1 questions, a student who keeps sending valid submissions
\* one at a time completes the quiz: the TakenQuiz exists once n submissions are
\* stored and not before, the attempt is completed in the end, and until then a
\* next valid submission can always be served.
C13_Completes ==
    /\ [](\A quiz \in Quizzes :
            questions[quiz] >= 1 =>
                /\ RowsOfQuiz(quiz) <= questions[quiz]
                /\ RowsOfQuiz(quiz) < questions[quiz] => TakenRows(quiz) = 0
                /\ RowsOfQuiz(quiz) = questions[quiz] => TakenRows(quiz) = 1
                /\ TakenRows(quiz) = 0 => ENABLED <<KeepsAnswering(quiz)>>_vars)
    /\ \A quiz \in Quizzes : (questions[quiz] >= 1) ~> (TakenRows(quiz) = 1)

\* C13's case: a quiz of MaxQuestions questions completed with MaxQuestions wrong
\* answers, the other quiz not begun.
C13_Witness ==
    \E quiz \in Quizzes :
        /\ questions[quiz] = MaxQuestions
        /\ RowsOfQuiz(quiz) = MaxQuestions
        /\ CorrectRowsOfQuiz(quiz) = 0
        /\ [quiz |-> quiz, score |-> 0] \in DOMAIN taken_quizzes
        /\ \A other \in Quizzes \ {quiz} : questions[other] >= 1 /\ RowsOfQuiz(other) = 0

\* C14: with submissions served one at a time, once a quiz has a stored answer its
\* next_exponent is an integer, at least 1, and equals 1 + the number of correct
\* answers given since the last wrong one (or since the start).
C14_ExponentIsStreak ==
    \A quiz \in Quizzes :
        RowsOfQuiz(quiz) >= 1 =>
            /\ HasScore(quiz)
            /\ NextExponent(quiz) \in Nat
            /\ NextExponent(quiz) >= 1
            /\ NextExponent(quiz) = 1 + Streak(quiz)

\* C14's case: a wrong answer and then two right ones (exponent 3), and three right
\* ones (exponent 4).
C14_Witness ==
    \E quiz \in Quizzes :
        /\ RowsOfQuiz(quiz) = 3
        /\ AnsweredWrong(quiz, 1) /\ ~AnsweredWrong(quiz, 2) /\ ~AnsweredWrong(quiz, 3)
        /\ NextExponent(quiz) = 3
        /\ \E other \in Quizzes \ {quiz} :
              /\ RowsOfQuiz(other) = 3 /\ CorrectRowsOfQuiz(other) = 3
              /\ HasScore(other) /\ NextExponent(other) = 4

\* C15: for a quiz with at least one question, in every reachable state, also with
\* two requests of the student served concurrently, no question of the quiz is
\* unanswered exactly if the quiz has a TakenQuiz; and a request that has passed the
\* "already taken" check finds a current question when it reads the unanswered ones.
C15_CurrentQuestionExists ==
    /\ \A quiz \in Quizzes :
          questions[quiz] >= 1 => (Open(quiz) = {} <=> TakenRows(quiz) >= 1)
    /\ \A w \in DOMAIN workers :
          (workers[w].pc = "read_questions" /\ questions[workers[w].pk] >= 1)
              => /\ First(GetUnansweredQuestions(quiz_answers, workers[w].pk)) # None
                 /\ Cardinality(GetUnansweredQuestions(quiz_answers, workers[w].pk)) >= 1

\* C16: a request for one quiz, whatever its outcome, leaves the temp_score and the
\* next_exponent that the session holds for every other quiz as they are.
C16_OtherQuizSessionKept ==
    [][\A pk \in Pks :
          response'.pk = pk =>
            StepHas(\A other \in Quizzes \ {pk} : ScoreKept(other),
                    \/ TakeQuizGet(pk)
                    \/ \E data \in PostData(pk) :
                          TakeQuizPost(pk, data) \/ TakeQuizPostCreateFails(pk, data))]_vars

\* C16's case: two attempts interleaved in one session, each with its own score: two
\* right answers to one quiz (6, exponent 3), a wrong one to the other (-2, exponent
\* 1), neither quiz completed.
C16_Witness ==
    \E quiz \in Quizzes : \E other \in Quizzes \ {quiz} :
        /\ RowsOfQuiz(quiz) = 2 /\ CorrectRowsOfQuiz(quiz) = 2
        /\ RowsOfQuiz(other) = 1 /\ CorrectRowsOfQuiz(other) = 0
        /\ TakenRows(quiz) = 0 /\ TakenRows(other) = 0
        /\ HasScore(quiz) /\ TempScore(quiz) = 6 /\ NextExponent(quiz) = 3
        /\ HasScore(other) /\ TempScore(other) = -2 /\ NextExponent(other) = 1

\* C17: once a quiz has its TakenQuiz, the session still holds the temp_score and the
\* next_exponent that the answers to the quiz produced, the last one included, and no
\* step takes them away or changes them.
C17_SessionOutlivesCompletion ==
    /\ [](\A quiz \in Quizzes :
            TakenRows(quiz) >= 1 =>
                /\ HasScore(quiz)
                /\ TempScore(quiz) = ScoreAfter(quiz, questions[quiz])
                /\ NextExponent(quiz) = 1 + Streak(quiz))
    /\ [][\A quiz \in Quizzes : TakenRows(quiz) >= 1 => ScoreKept(quiz)]_vars

\* C17's case: a quiz was completed with a right and a wrong answer (0, exponent 1);
\* the other quiz was completed after it, by the last request, and the session holds
\* the values of both.
C17_Witness ==
    \E quiz \in Quizzes : \E other \in Quizzes \ {quiz} :
        /\ TakenRows(quiz) = 1 /\ questions[quiz] = 2
        /\ ~AnsweredWrong(quiz, 1) /\ AnsweredWrong(quiz, 2)
        /\ HasScore(quiz) /\ TempScore(quiz) = 0 /\ NextExponent(quiz) = 1
        /\ TakenRows(other) = 1
        /\ response.status = "redirect_quiz_list" /\ response.pk = other
        /\ HasScore(other)

\* C18: a wrong answer takes 2 off the running score, another wrong answer directly
\* after it takes 4 off, and so on: the deduction doubles with each wrong answer in a
\* row.
C18_DeductionDoubles ==
    [][\A pk \in Quizzes :
          (response'.pk = pk /\ CanSubmit(pk)) =>
            \A data \in ValidData(pk) \ correct_answers :
              StepHas(/\ HasScore(pk)'
                      /\ TempScore(pk)' = SessionGet(session, temp_score_name(pk), 0)
                                            - 2 ^ (1 + WrongRun(pk)),
                      TakeQuizPost(pk, data))]_vars

\* C19: the student's quiz list, whatever the student's interests, holds no quiz
\* without questions and no quiz that the student has a TakenQuiz for; a quiz is off
\* the list from the step that completes it and does not come back.
C19_QuizListOffersOpenQuizzes ==
    /\ [](\A student_interests \in SUBSET Subjects :
            \A quiz \in GetQueryset(student_interests, taken_quizzes) :
                questions[quiz] > 0 /\ TakenRows(quiz) = 0)
    /\ [](response.status = "quiz_list" =>
            \A quiz \in response.detail : questions[quiz] > 0 /\ TakenRows(quiz) = 0)
    /\ [][\A quiz \in Quizzes :
            (TakenRows(quiz) >= 1 \/ TakenRows(quiz)' >= 1) =>
                \A student_interests \in SUBSET Subjects :
                    quiz \notin GetQueryset(student_interests, taken_quizzes)']_vars

\* C19's case: the list served to a student who has completed one quiz and not the
\* other: it offers the other quiz alone.
C19_Witness ==
    \E quiz \in Quizzes : \E other \in Quizzes \ {quiz} :
        /\ questions[quiz] >= 1 /\ TakenRows(quiz) = 1
        /\ questions[other] >= 1 /\ TakenRows(other) = 0
        /\ response.status = "quiz_list"
        /\ response.detail = {other}

=============================================================================
